---- MODULE Spec2Model ----
(***************************************************************************)
(* The upload pipeline of scraper/cloud_uploader.py: the CircuitBreaker,   *)
(* the persistent UploadQueue (the upload_jobs table) and the              *)
(* CloudUploader that drains it.                                           *)
(*                                                                         *)
(* Time.  datetime.now() is the variable clock, counted in units of        *)
(* 1/UnitsPerSecond second, the resolution in which _calculate_backoff is  *)
(* an exact integer.  The clock is read on a grid of TickLength: Tick      *)
(* moves it to the next grid instant and may fire between any two steps,   *)
(* so blocking calls (time.sleep, the HTTP request) take zero or more      *)
(* ticks.  Timestamps written by the code (last_failure_time,             *)
(* next_retry_at) are kept exactly as the code computes them.              *)
(***************************************************************************)
EXTENDS Integers, Sequences, FiniteSets, TLC

VARIABLES
    clock,          \* datetime.now()
    cb,             \* the CircuitBreaker instance
    upload_jobs,    \* the upload_jobs table: id -> row
    created,        \* number of rows ever inserted (orders created_at)
    wk,             \* per worker: position in process_queue / upload_file
    callers,        \* per caller of CircuitBreaker.call: "idle", or func is
                    \* running: "in_func" when call found the breaker
                    \* CLOSED, "in_trial" when it found it OPEN or HALF_OPEN
    hist,           \* history: what the most recent CircuitBreaker.call saw and did
    calc,           \* a direct call of _calculate_backoff: arguments and result
    restarts        \* number of runs ended abruptly: the process was terminated,
                    \* or an exception left process_queue or upload_file

vars == <<clock, cb, upload_jobs, created, wk, callers, hist, calc, restarts>>

None == "None"

\* A null timestamp (last_failure_time, next_retry_at); real ones are >= 0.
NoTime == 0 - 1

(***************************************************************************)
(* Bounds of the model.                                                    *)
(***************************************************************************)
MaxJobs == 2        \* rows the table may hold
MaxTicks == 2       \* grid instants the clock may advance
NumCallers == 2     \* concurrent callers of CircuitBreaker.call
MaxAttempt == 12    \* largest attempt _calculate_backoff is called with
MaxRestarts == 1    \* runs ended abruptly
MaxBatches == 1     \* batch ids a caller may pass

(***************************************************************************)
(* Program constants.                                                      *)
(***************************************************************************)
failure_threshold == 5      \* CircuitBreaker.__init__ default
recovery_timeout == 60      \* CircuitBreaker.__init__ default, seconds
DefaultMaxAttempts == 5     \* upload_jobs.max_attempts column default
max_delay == 300            \* _calculate_backoff cap, seconds
UnitsPerSecond == 2550      \* 0.1 * (2 * byte / 255 - 1) is a multiple of 1/2550
QueueBatchLimit == 10       \* process_queue: get_next_jobs(limit=10)

\* The grid on which the clock is read: one recovery timeout.
TickLength == recovery_timeout * UnitsPerSecond

Min(a, b) == IF a <= b THEN a ELSE b

RECURSIVE Pow2(_)
Pow2(n) == IF n <= 0 THEN 1 ELSE 2 * Pow2(n - 1)

(***************************************************************************)
(* CircuitBreaker                                                          *)
(***************************************************************************)
CircuitBreaker(threshold, timeout) ==
    [ failure_threshold |-> threshold,
      recovery_timeout  |-> timeout,
      failure_count     |-> 0,
      last_failure_time |-> NoTime,
      state             |-> "closed" ]

\* _should_attempt_reset, mutated: the timeout is not waited for.
_should_attempt_reset_NoWait(b, now) ==
    b.last_failure_time # NoTime

_should_attempt_reset(b, now) ==
    IF b.last_failure_time = NoTime
    THEN FALSE
    ELSE (now - b.last_failure_time) >= b.recovery_timeout * UnitsPerSecond

\* The locked prologue of call: TRUE when it raises "Circuit breaker is OPEN".
call_rejects(b, now) ==
    b.state = "open" /\ ~ _should_attempt_reset(b, now)

\* The breaker after the locked prologue of a call that is not rejected.
call_enter(b, now) ==
    IF b.state = "open" /\ _should_attempt_reset(b, now)
    THEN [b EXCEPT !.state = "half_open"]
    ELSE b

\* _on_success, mutated: the count is reset but the state is left alone.
_on_success_KeepState(b) ==
    [b EXCEPT !.failure_count = 0]

_on_success(b) ==
    [b EXCEPT !.failure_count = 0, !.state = "closed"]

\* _on_failure, mutated: opens one failure early.
_on_failure_Early(b, now) ==
    [b EXCEPT !.failure_count = @ + 1,
              !.last_failure_time = now,
              !.state = IF b.failure_count + 1 >= b.failure_threshold - 1
                        THEN "open" ELSE @]

\* _on_failure, mutated: the count stops at the threshold.
_on_failure_Saturates(b, now) ==
    [b EXCEPT !.failure_count = Min(@ + 1, b.failure_threshold),
              !.last_failure_time = now,
              !.state = IF b.failure_count + 1 >= b.failure_threshold
                        THEN "open" ELSE @]

_on_failure(b, now) ==
    [b EXCEPT !.failure_count = @ + 1,
              !.last_failure_time = now,
              !.state = IF b.failure_count + 1 >= b.failure_threshold
                        THEN "open" ELSE @]

(***************************************************************************)
(* The clock.                                                              *)
(***************************************************************************)
TickUpTo(ticks) ==
    /\ clock < ticks * TickLength
    /\ clock' = clock + TickLength
    /\ UNCHANGED <<cb, upload_jobs, created, wk, callers, hist, calc, restarts>>

Tick == TickUpTo(MaxTicks)

(***************************************************************************)
(* Callers of CircuitBreaker.call with an arbitrary wrapped operation.     *)
(* call is three steps: the locked prologue, then the operation runs       *)
(* outside the lock, then _on_success or _on_failure under the lock.       *)
(***************************************************************************)
Callers == 1 .. NumCallers

NoCall ==
    [ caller |-> 0, state |-> None, now |-> 0, last_failure_time |-> NoTime,
      invoked |-> 0, outcome |-> None, failures |-> 0 ]

NoCalc == [ attempt |-> 0, byte |-> 0, result |-> NoTime ]

\* call, mutated: a rejected call counts as a failure at that moment.
CallEnter_Postpones(c) ==
    /\ callers[c] = "idle"
    /\ cb' = IF call_rejects(cb, clock)
             THEN [cb EXCEPT !.last_failure_time = clock]
             ELSE call_enter(cb, clock)
    /\ callers' = [callers EXCEPT ![c] =
                      IF call_rejects(cb, clock) THEN "idle"
                      ELSE IF cb.state = "closed" THEN "in_func"
                      ELSE "in_trial"]
    /\ hist' = [ caller |-> c, state |-> cb.state, now |-> clock,
                 last_failure_time |-> cb.last_failure_time,
                 invoked |-> IF call_rejects(cb, clock) THEN 0 ELSE 1,
                 outcome |-> IF call_rejects(cb, clock)
                             THEN "circuit_open" ELSE "pending",
                 failures |-> hist.failures ]
    /\ UNCHANGED <<clock, upload_jobs, created, wk, calc, restarts>>

\* call, lines 74-80: the prologue either raises or lets func run.
CallEnter(c) ==
    /\ callers[c] = "idle"
    /\ cb' = IF call_rejects(cb, clock) THEN cb ELSE call_enter(cb, clock)
    /\ callers' = [callers EXCEPT ![c] =
                      IF call_rejects(cb, clock) THEN "idle"
                      ELSE IF cb.state = "closed" THEN "in_func"
                      ELSE "in_trial"]
    /\ hist' = [ caller |-> c, state |-> cb.state, now |-> clock,
                 last_failure_time |-> cb.last_failure_time,
                 invoked |-> IF call_rejects(cb, clock) THEN 0 ELSE 1,
                 outcome |-> IF call_rejects(cb, clock)
                             THEN "circuit_open" ELSE "pending",
                 failures |-> hist.failures ]
    /\ UNCHANGED <<clock, upload_jobs, created, wk, calc, restarts>>

\* call, lines 83-85: func returned.
FuncReturns(c) ==
    /\ callers[c] \in {"in_func", "in_trial"}
    /\ cb' = _on_success(cb)
    /\ callers' = [callers EXCEPT ![c] = "idle"]
    /\ hist' = [hist EXCEPT !.failures = 0,
                            !.outcome = IF hist.caller = c THEN "returned" ELSE @]
    /\ UNCHANGED <<clock, upload_jobs, created, wk, calc, restarts>>

\* call, lines 86-88: func raised.
FuncRaises(c) ==
    /\ callers[c] \in {"in_func", "in_trial"}
    /\ cb' = _on_failure(cb, clock)
    /\ callers' = [callers EXCEPT ![c] = "idle"]
    /\ hist' = [hist EXCEPT !.failures = @ + 1,
                            !.outcome = IF hist.caller = c THEN "raised" ELSE @]
    /\ UNCHANGED <<clock, upload_jobs, created, wk, calc, restarts>>

InitCB ==
    /\ clock = 0
    /\ cb = CircuitBreaker(failure_threshold, recovery_timeout)
    /\ upload_jobs = << >>
    /\ created = 0
    /\ wk = << >>
    /\ callers = [c \in Callers |-> "idle"]
    /\ hist = NoCall
    /\ calc = NoCalc
    /\ restarts = 0

\* The clock at half the recovery timeout, so that calls fall inside the
\* timeout as well as on its ends.
HalfTick ==
    /\ clock < MaxTicks * TickLength
    /\ clock' = clock + TickLength \div 2
    /\ UNCHANGED <<cb, upload_jobs, created, wk, callers, hist, calc, restarts>>

NextCBHalf ==
    \/ HalfTick
    \/ CallEnter(1)
    \/ FuncReturns(1)
    \/ FuncRaises(1)

SpecCBHalf == InitCB /\ [][NextCBHalf]_vars

\* One caller at a time.
NextCB1 ==
    \/ Tick
    \/ CallEnter(1)
    \/ FuncReturns(1)
    \/ FuncRaises(1)

SpecCB1 == InitCB /\ [][NextCB1]_vars

\* Any number of callers, interleaved at the lock boundaries.
NextCBN ==
    \/ Tick
    \/ \E c \in Callers : CallEnter(c)
    \/ \E c \in Callers : FuncReturns(c)
    \/ \E c \in Callers : FuncRaises(c)

SpecCBN == InitCB /\ [][NextCBN]_vars

(***************************************************************************)
(* UploadQueue: the upload_jobs table.                                     *)
(* A row's file_path is modelled by what the file system answers for it:   *)
(* "missing" (os.path.exists is false), "malformed" (open/json.load or     *)
(* data.get raises) or "ok".  created_at is datetime.now() at the insert;  *)
(* successive inserts get successive stamps.                               *)
(***************************************************************************)
JobIds == 1 .. MaxJobs

FileKinds == {"ok", "missing", "malformed"}

\* The batch_id argument of enqueue and upload_file; several files may be
\* handed in under one batch.
BatchIds == 1 .. MaxBatches

\* uuid4(), line 148: an id no row has.  The model hands ids out from the
\* top, so that the order of the ids is not the order of creation.
NewJobId(jobs) ==
    CHOOSE id \in JobIds \ DOMAIN jobs :
        \A other \in JobIds \ DOMAIN jobs : other <= id

\* enqueue, mutated: the insert replaces the table by the new row.
enqueue_Replace(jobs, job_id, file_path, batch_id, stamp) ==
    (job_id :> [ id            |-> job_id,
                 file_path     |-> file_path,
                 batch_id      |-> batch_id,
                 status        |-> "pending",
                 attempts      |-> 0,
                 max_attempts  |-> DefaultMaxAttempts,
                 created_at    |-> stamp,
                 next_retry_at |-> NoTime,
                 error_message |-> None ])

\* enqueue, lines 146-162.
enqueue(jobs, job_id, file_path, batch_id, stamp) ==
    (job_id :> [ id            |-> job_id,
                 file_path     |-> file_path,
                 batch_id      |-> batch_id,
                 status        |-> "pending",
                 attempts      |-> 0,
                 max_attempts  |-> DefaultMaxAttempts,
                 created_at    |-> stamp,
                 next_retry_at |-> NoTime,
                 error_message |-> None ]) @@ jobs

\* The WHERE clause of get_next_jobs, mutated: the status is not looked at.
Eligible_AnyStatus(jobs, now) ==
    { id \in DOMAIN jobs :
        jobs[id].next_retry_at = NoTime \/ jobs[id].next_retry_at <= now }

\* The WHERE clause of get_next_jobs, mutated: only PENDING rows are selected.
Eligible_PendingOnly(jobs, now) ==
    { id \in DOMAIN jobs :
        /\ jobs[id].status = "pending"
        /\ (jobs[id].next_retry_at = NoTime \/ jobs[id].next_retry_at <= now) }

\* The WHERE clause of get_next_jobs, mutated: next_retry_at is not looked at.
Eligible_IgnoreRetryTime(jobs, now) ==
    { id \in DOMAIN jobs : jobs[id].status \in {"pending", "retry"} }

\* The WHERE clause of get_next_jobs, mutated: COMPLETED jobs are selected
\* as well.
Eligible_WithCompleted(jobs, now) ==
    { id \in DOMAIN jobs :
        /\ jobs[id].status \in {"pending", "retry", "completed"}
        /\ (jobs[id].next_retry_at = NoTime \/ jobs[id].next_retry_at <= now) }

\* The WHERE clause of get_next_jobs, lines 171-172.
Eligible(jobs, now) ==
    { id \in DOMAIN jobs :
        /\ jobs[id].status \in {"pending", "retry"}
        /\ (jobs[id].next_retry_at = NoTime \/ jobs[id].next_retry_at <= now) }

\* ORDER BY created_at, mutated: DESC.
RECURSIVE OrderByCreatedAt_Desc(_, _)
OrderByCreatedAt_Desc(jobs, ids) ==
    IF ids = {} THEN << >>
    ELSE LET first == CHOOSE x \in ids :
                         \A y \in ids : jobs[x].created_at >= jobs[y].created_at
         IN  <<jobs[first]>> \o OrderByCreatedAt_Desc(jobs, ids \ {first})

\* ORDER BY created_at ASC, line 173: the rows of ids, oldest first.
RECURSIVE OrderByCreatedAt(_, _)
OrderByCreatedAt(jobs, ids) ==
    IF ids = {} THEN << >>
    ELSE LET first == CHOOSE x \in ids :
                         \A y \in ids : jobs[x].created_at <= jobs[y].created_at
         IN  <<jobs[first]>> \o OrderByCreatedAt(jobs, ids \ {first})

\* get_next_jobs, lines 164-193: the rows selected, as UploadJob snapshots.
get_next_jobs(jobs, now, limit) ==
    LET rows == OrderByCreatedAt(jobs, Eligible(jobs, now))
    IN  SubSeq(rows, 1, Min(limit, Len(rows)))

\* update_job_status, mutated: a null next_retry_at keeps the old value.
update_job_status_KeepRetryTime(jobs, job_id, status, error_message, next_retry_at) ==
    [ id \in DOMAIN jobs |->
        IF id = job_id
        THEN [jobs[id] EXCEPT !.status = status,
                              !.error_message = error_message,
                              !.next_retry_at = IF next_retry_at = NoTime
                                                THEN @ ELSE next_retry_at]
        ELSE jobs[id] ]

\* update_job_status, mutated: the UPDATE has no WHERE clause.
update_job_status_AllRows(jobs, job_id, status, error_message, next_retry_at) ==
    [ id \in DOMAIN jobs |->
        [jobs[id] EXCEPT !.status = status,
                         !.error_message = error_message,
                         !.next_retry_at = next_retry_at] ]

\* update_job_status, mutated: a job that is done is deleted.
update_job_status_DeleteDone(jobs, job_id, status, error_message, next_retry_at) ==
    [ id \in DOMAIN jobs \ (IF status = "completed" THEN {job_id} ELSE {}) |->
        IF id = job_id
        THEN [jobs[id] EXCEPT !.status = status,
                              !.error_message = error_message,
                              !.next_retry_at = next_retry_at]
        ELSE jobs[id] ]

\* update_job_status, lines 195-204: an UPDATE ... WHERE id = ?.
update_job_status(jobs, job_id, status, error_message, next_retry_at) ==
    [ id \in DOMAIN jobs |->
        IF id = job_id
        THEN [jobs[id] EXCEPT !.status = status,
                              !.error_message = error_message,
                              !.next_retry_at = next_retry_at]
        ELSE jobs[id] ]

\* increment_attempts, mutated: the UPDATE also clears the retry time.
increment_attempts_ClearsRetryTime(jobs, job_id) ==
    [ id \in DOMAIN jobs |->
        IF id = job_id
        THEN [jobs[id] EXCEPT !.attempts = @ + 1, !.next_retry_at = NoTime]
        ELSE jobs[id] ]

\* increment_attempts, lines 206-214.
increment_attempts(jobs, job_id) ==
    [ id \in DOMAIN jobs |->
        IF id = job_id
        THEN [jobs[id] EXCEPT !.attempts = @ + 1]
        ELSE jobs[id] ]

(***************************************************************************)
(* CloudUploader                                                           *)
(***************************************************************************)
\* The random byte os.urandom(1)[0] of _calculate_backoff: its extremes.
JitterBytes == {0, 255}

\* _calculate_backoff, mutated: the exponent is one too high.
_calculate_backoff_NextExponent(attempt, byte) ==
    LET base_delay == Pow2(attempt + 1)
        jitter     == base_delay * (2 * byte - 255)
    IN  Min(base_delay * UnitsPerSecond + jitter, max_delay * UnitsPerSecond)

\* _calculate_backoff, mutated: the cap is left out.
_calculate_backoff_NoCap(attempt, byte) ==
    Pow2(attempt) * UnitsPerSecond + Pow2(attempt) * (2 * byte - 255)

\* _calculate_backoff, lines 356-362, in units of 1/UnitsPerSecond second:
\* base + base * 0.1 * (2 * byte / 255 - 1), capped at max_delay.
_calculate_backoff(attempt, byte) ==
    LET base_delay == Pow2(attempt)
        jitter     == base_delay * (2 * byte - 255)
    IN  Min(base_delay * UnitsPerSecond + jitter, max_delay * UnitsPerSecond)

\* What one HTTP exchange of _make_upload_request can end in.  A 2xx body
\* whose status is not 'completed' has no 'error' key ("app_failure":
\* response.get('error', 'Unknown error') is the default) or carries the key
\* with a JSON null ("app_failure_null": it is None).  A 200, 201 or 202
\* whose body is not JSON makes response.json(), line 344, raise
\* ("unparsable").
Returned == {"completed", "app_failure", "app_failure_null", "client_error"}
Raised == {"rate_limited", "server_error", "network_error"}
Unparsable == {"unparsable"}
Responses == Returned \cup Raised \cup Unparsable

\* The text of the failure, mutated: the message is lost.
ErrorOf_Lost(response) == None

\* The text the failure leaves in error_message.
ErrorOf(response) ==
    CASE response = "app_failure"   -> "Unknown error"
      [] response = "client_error"  -> "Client error"
      [] response = "rate_limited"  -> "Rate limited"
      [] response = "server_error"  -> "Server error"
      [] response = "network_error" -> "Network error"
      [] response = "unparsable"    -> "Invalid body"
      [] OTHER -> None

\* Line 319, mutated: every returned body counts as completed.
response_completed_Any(response) ==
    response \in Returned

\* Line 319: response.get('status') == 'completed'.
response_completed(response) ==
    response = "completed"

Workers == {1, 2}

NoJob == [ id |-> 0 ]

IdleWorker ==
    [ pc |-> "idle", caller |-> None, jobs |-> << >>, k |-> 0,
      job |-> NoJob, payload |-> 0, attempt |-> 0, outcome |-> None,
      kind |-> None, success |-> FALSE, error |-> None,
      calls |-> 0, waits |-> << >> ]

\* Return from _process_upload_job, mutated: process_queue returns after
\* its first batch.
Returned_to_OneBatch(w) ==
    IF wk[w].caller = "process_queue" /\ wk[w].k < Len(wk[w].jobs)
    THEN [wk[w] EXCEPT !.pc = "pq_inc", !.k = @ + 1, !.job = NoJob,
                       !.payload = 0, !.attempt = 0,
                       !.calls = 0, !.waits = << >>]
    ELSE IdleWorker

\* Return from _process_upload_job to its caller: the next iteration of
\* the for loop of process_queue, its next get_next_jobs, or the caller of
\* upload_file.
Returned_to(w) ==
    IF wk[w].caller = "process_queue"
    THEN IF wk[w].k < Len(wk[w].jobs)
         THEN [wk[w] EXCEPT !.pc = "pq_inc", !.k = @ + 1, !.job = NoJob,
                            !.payload = 0, !.attempt = 0,
                            !.calls = 0, !.waits = << >>]
         ELSE [wk[w] EXCEPT !.pc = "pq_fetch", !.k = 0, !.jobs = << >>,
                            !.job = NoJob, !.payload = 0, !.attempt = 0,
                            !.calls = 0, !.waits = << >>]
    ELSE IdleWorker

\* UploadQueue.enqueue called by a producer, for a file of one of kinds.
EnqueueOf(w, kinds, batches) ==
    /\ wk[w].pc = "idle"
    /\ Cardinality(DOMAIN upload_jobs) < MaxJobs
    /\ \E f \in kinds, b \in batches :
          upload_jobs' = enqueue(upload_jobs, NewJobId(upload_jobs), f, b,
                                 created + 1)
    /\ created' = created + 1
    /\ UNCHANGED <<clock, cb, wk, callers, hist, calc, restarts>>

Enqueue(w) == EnqueueOf(w, FileKinds, BatchIds)

\* upload_file, lines 241-242: a batch_id that is left out is replaced by
\* a generated one, which no caller passes and no other job carries.
NewBatchId(job_id) == MaxBatches + job_id

\* upload_file, lines 239-248: enqueue, then _process_upload_job.
UploadFile(w) ==
    /\ wk[w].pc = "idle"
    /\ Cardinality(DOMAIN upload_jobs) < MaxJobs
    /\ \E f \in FileKinds, b \in BatchIds \cup {0} :
          LET job_id == NewJobId(upload_jobs)
          IN  upload_jobs' = enqueue(upload_jobs, job_id, f,
                                     IF b = 0 THEN NewBatchId(job_id) ELSE b,
                                     created + 1)
    /\ created' = created + 1
    /\ wk' = [wk EXCEPT ![w] = [IdleWorker EXCEPT !.pc = "puj_fetch",
                                                  !.caller = "upload_file"]]
    /\ UNCHANGED <<clock, cb, callers, hist, calc, restarts>>

\* process_queue, mutated: the jobs that are fetched are marked PROCESSING.
ProcessQueue_Claims(w) ==
    /\ wk[w].pc \in {"idle", "pq_fetch"}
    /\ LET jobs == get_next_jobs(upload_jobs, clock, QueueBatchLimit)
           ids  == {jobs[i].id : i \in 1 .. Len(jobs)}
       IN  /\ wk' = [wk EXCEPT ![w] =
                       IF jobs = << >>
                       THEN IdleWorker
                       ELSE [IdleWorker EXCEPT
                               !.pc = "pq_inc", !.caller = "process_queue",
                               !.jobs = [i \in 1 .. Len(jobs) |-> jobs[i].id],
                               !.k = 1]]
           /\ upload_jobs' = [id \in DOMAIN upload_jobs |->
                                IF id \in ids
                                THEN [upload_jobs[id] EXCEPT !.status = "processing"]
                                ELSE upload_jobs[id]]
    /\ UNCHANGED <<clock, cb, created, callers, hist, calc, restarts>>

\* process_queue, lines 366-371: get_next_jobs(limit=10); return when empty.
ProcessQueue(w) ==
    /\ wk[w].pc \in {"idle", "pq_fetch"}
    /\ LET jobs == get_next_jobs(upload_jobs, clock, QueueBatchLimit)
       IN  wk' = [wk EXCEPT ![w] =
                    IF jobs = << >>
                    THEN IdleWorker
                    ELSE [IdleWorker EXCEPT
                            !.pc = "pq_inc", !.caller = "process_queue",
                            !.jobs = [i \in 1 .. Len(jobs) |-> jobs[i].id],
                            !.k = 1]]
    /\ UNCHANGED <<clock, cb, upload_jobs, created, callers, hist, calc, restarts>>

\* process_queue, lines 373-375: increment_attempts(job.id), then the call
\* of _process_upload_job(job.id).
IncrementAttempts(w) ==
    /\ wk[w].pc = "pq_inc"
    /\ upload_jobs' = increment_attempts(upload_jobs, wk[w].jobs[wk[w].k])
    /\ wk' = [wk EXCEPT ![w].pc = "puj_fetch"]
    /\ UNCHANGED <<clock, cb, created, callers, hist, calc, restarts>>

\* _process_upload_job, lines 252-283: get_next_jobs(limit=1), the file
\* check and the load of the payload.
ProcessUploadJob(w) ==
    /\ wk[w].pc = "puj_fetch"
    /\ LET jobs == get_next_jobs(upload_jobs, clock, 1)
       IN  wk' = [wk EXCEPT ![w] =
                    IF jobs = << >>
                    THEN Returned_to(w)
                    ELSE IF jobs[1].file_path = "missing"
                    THEN [@ EXCEPT !.pc = "puj_write", !.job = jobs[1],
                                   !.outcome = None, !.kind = "not_found",
                                   !.success = FALSE, !.error = "File not found"]
                    ELSE IF jobs[1].file_path = "malformed"
                    THEN [@ EXCEPT !.pc = "puj_write", !.job = jobs[1],
                                   !.outcome = None, !.kind = "exception",
                                   !.success = FALSE, !.error = "Load error"]
                    ELSE [@ EXCEPT !.pc = "retry_loop", !.job = jobs[1],
                                   !.payload = jobs[1].id, !.attempt = 0,
                                   !.outcome = None, !.kind = "upload",
                                   !.success = FALSE, !.error = None,
                                   !.calls = 0, !.waits = << >>]]
    /\ UNCHANGED <<clock, cb, upload_jobs, created, callers, hist, calc, restarts>>

\* range(...), mutated: one sub-attempt too many.
SubAttempts_OneMore(job) == job.max_attempts - job.attempts + 1

\* range(job.max_attempts - job.attempts), line 312.
SubAttempts(job) == job.max_attempts - job.attempts

\* The except branch, mutated: it sleeps after the last sub-attempt too.
AfterException_SleepAlways(w, error_msg) ==
    IF wk[w].attempt < SubAttempts(wk[w].job) - 1
    THEN [wk[w] EXCEPT !.pc = "retry_loop", !.attempt = @ + 1,
                       !.waits = Append(@, wk[w].attempt)]
    ELSE [wk[w] EXCEPT !.pc = "puj_write", !.success = FALSE,
                       !.error = error_msg,
                       !.waits = Append(@, wk[w].attempt)]

\* The except branch of _upload_with_retry, lines 324-333: sleep
\* _calculate_backoff(attempt) and go round again, or give up with the
\* message of this failure.  waits records the argument of each sleep.
AfterException(w, error_msg) ==
    IF wk[w].attempt < SubAttempts(wk[w].job) - 1
    THEN [wk[w] EXCEPT !.pc = "retry_loop", !.attempt = @ + 1,
                       !.waits = Append(@, wk[w].attempt)]
    ELSE [wk[w] EXCEPT !.pc = "puj_write", !.success = FALSE,
                       !.error = error_msg]

\* _upload_with_retry, lines 312-317 and 335: the head of the for loop and
\* the locked prologue of circuit_breaker.call.  calls counts the
\* circuit_breaker.call invocations of the cycle.
UploadAttempt(w) ==
    /\ wk[w].pc = "retry_loop"
    /\ IF wk[w].attempt >= SubAttempts(wk[w].job)
       THEN /\ wk' = [wk EXCEPT ![w].pc = "puj_write", ![w].success = FALSE,
                                ![w].error = "Max attempts exceeded"]
            /\ cb' = cb
       ELSE IF call_rejects(cb, clock)
       THEN /\ wk' = [wk EXCEPT ![w] =
                        [AfterException(w, "Circuit breaker is OPEN")
                            EXCEPT !.calls = @ + 1]]
            /\ cb' = cb
       ELSE /\ wk' = [wk EXCEPT ![w].pc = "in_request",
                                ![w].calls = @ + 1]
            /\ cb' = call_enter(cb, clock)
    /\ UNCHANGED <<clock, upload_jobs, created, callers, hist, calc, restarts>>

\* _make_upload_request, mutated: a client error is recorded by the breaker
\* as a failure.
ResponseFrom_CountsClientError(w, answers) ==
    /\ wk[w].pc = "in_request"
    /\ \E r \in answers :
          IF r \in Returned
          THEN /\ cb' = IF r = "client_error"
                       THEN _on_failure(cb, clock) ELSE _on_success(cb)
               /\ wk' = [wk EXCEPT ![w].pc = "puj_write", ![w].outcome = r,
                                   ![w].success = response_completed(r),
                                   ![w].error = IF response_completed(r)
                                                THEN None ELSE ErrorOf(r)]
          ELSE /\ cb' = _on_failure(cb, clock)
               /\ wk' = [wk EXCEPT ![w] =
                           [AfterException(w, ErrorOf(r)) EXCEPT !.outcome = r]]
    /\ UNCHANGED <<clock, upload_jobs, created, callers, hist, calc, restarts>>

\* _make_upload_request answers, lines 341-354, and call records the
\* outcome, lines 83-88; then lines 319-322 or the except branch.
ResponseFrom(w, answers) ==
    /\ wk[w].pc = "in_request"
    /\ \E r \in answers :
          IF r \in Returned
          THEN /\ cb' = _on_success(cb)
               /\ wk' = [wk EXCEPT ![w].pc = "puj_write", ![w].outcome = r,
                                   ![w].success = response_completed(r),
                                   ![w].error = IF response_completed(r)
                                                THEN None ELSE ErrorOf(r)]
          ELSE /\ cb' = _on_failure(cb, clock)
               /\ wk' = [wk EXCEPT ![w] =
                           [AfterException(w, ErrorOf(r)) EXCEPT !.outcome = r]]
    /\ UNCHANGED <<clock, upload_jobs, created, callers, hist, calc, restarts>>

Response(w) == ResponseFrom(w, Responses)

\* _process_upload_job, lines 260 and 288-308: the one status write of the
\* cycle, then the return.
StatusWrite(w) ==
    /\ wk[w].pc = "puj_write"
    /\ LET job == wk[w].job
       IN  IF wk[w].kind # "upload"
           THEN upload_jobs' = update_job_status(upload_jobs, job.id, "failed",
                                                 wk[w].error, NoTime)
           ELSE IF wk[w].success
           THEN upload_jobs' = update_job_status(upload_jobs, job.id,
                                                 "completed", None, NoTime)
           ELSE IF job.attempts >= job.max_attempts
           THEN upload_jobs' = update_job_status(upload_jobs, job.id, "failed",
                                                 wk[w].error, NoTime)
           ELSE \E byte \in JitterBytes :
                  upload_jobs' = update_job_status(upload_jobs, job.id, "retry",
                      wk[w].error, clock + _calculate_backoff(job.attempts, byte))
    /\ wk' = [wk EXCEPT ![w] = Returned_to(w)]
    /\ UNCHANGED <<clock, cb, created, callers, hist, calc, restarts>>

Init ==
    /\ clock = 0
    /\ cb = CircuitBreaker(failure_threshold, recovery_timeout)
    /\ upload_jobs = << >>
    /\ created = 0
    /\ wk = [w \in Workers |-> IdleWorker]
    /\ callers = [c \in Callers |-> "idle"]
    /\ hist = NoCall
    /\ calc = NoCalc
    /\ restarts = 0

Step(w) ==
    \/ Enqueue(w)
    \/ UploadFile(w)
    \/ ProcessQueue(w)
    \/ IncrementAttempts(w)
    \/ ProcessUploadJob(w)
    \/ UploadAttempt(w)
    \/ Response(w)
    \/ StatusWrite(w)

\* A single worker, as the pipeline is run.
Next ==
    \/ Tick
    \/ Step(1)

Spec == Init /\ [][Next]_vars

(***************************************************************************)
(* A drain against an endpoint that rejects every request with a client    *)
(* error, followed for as many grid instants as a job has attempts.        *)
(***************************************************************************)
NextRejecting ==
    \/ TickUpTo(DefaultMaxAttempts)
    \/ EnqueueOf(1, {"ok"}, {1})
    \/ ProcessQueue(1)
    \/ IncrementAttempts(1)
    \/ ProcessUploadJob(1)
    \/ UploadAttempt(1)
    \/ ResponseFrom(1, {"client_error"})
    \/ StatusWrite(1)

SpecRejecting == Init /\ [][NextRejecting]_vars

(***************************************************************************)
(* A drain by process_queue of readable files against an endpoint that is  *)
(* down (every request raises), followed for as many grid instants as a    *)
(* job has attempts, so that a job can use up its attempts.                *)
(***************************************************************************)
NextDown ==
    \/ TickUpTo(DefaultMaxAttempts)
    \/ EnqueueOf(1, {"ok"}, {1})
    \/ ProcessQueue(1)
    \/ IncrementAttempts(1)
    \/ ProcessUploadJob(1)
    \/ UploadAttempt(1)
    \/ ResponseFrom(1, Raised)
    \/ StatusWrite(1)

SpecDown == Init /\ [][NextDown]_vars

(***************************************************************************)
(* One job that allows three attempts (a row whose max_attempts column is  *)
(* 3 instead of the column default), drained by process_queue against an   *)
(* endpoint that answers 500 to every request.                             *)
(***************************************************************************)
InitThreeAttempts ==
    /\ clock = 0
    /\ cb = CircuitBreaker(failure_threshold, recovery_timeout)
    /\ upload_jobs =
          [id \in {1} |-> [enqueue(<< >>, 1, "ok", 1, 1)[1]
                              EXCEPT !.max_attempts = 3]]
    /\ created = 1
    /\ wk = [w \in Workers |-> IdleWorker]
    /\ callers = [c \in Callers |-> "idle"]
    /\ hist = NoCall
    /\ calc = NoCalc
    /\ restarts = 0

NextServerError ==
    \/ TickUpTo(DefaultMaxAttempts)
    \/ ProcessQueue(1)
    \/ IncrementAttempts(1)
    \/ ProcessUploadJob(1)
    \/ UploadAttempt(1)
    \/ ResponseFrom(1, {"server_error"})
    \/ StatusWrite(1)

SpecThreeAttempts == InitThreeAttempts /\ [][NextServerError]_vars

(***************************************************************************)
(* _calculate_backoff called directly, for every attempt up to MaxAttempt  *)
(* and every value of the random byte.                                     *)
(***************************************************************************)
InitBackoff ==
    /\ clock = 0
    /\ cb = CircuitBreaker(failure_threshold, recovery_timeout)
    /\ upload_jobs = << >>
    /\ created = 0
    /\ wk = [w \in Workers |-> IdleWorker]
    /\ callers = [c \in Callers |-> "idle"]
    /\ hist = NoCall
    /\ calc \in [ attempt : 0 .. MaxAttempt, byte : 0 .. 255, result : {NoTime} ]
    /\ restarts = 0

CalculateBackoff ==
    /\ calc.result = NoTime
    /\ calc' = [calc EXCEPT !.result = _calculate_backoff(calc.attempt, calc.byte)]
    /\ UNCHANGED <<clock, cb, upload_jobs, created, wk, callers, hist, restarts>>

SpecBackoff == InitBackoff /\ [][CalculateBackoff]_vars

(***************************************************************************)
(* Two workers running process_queue on the same store, interleaved at     *)
(* the boundaries of the queue's and breaker's locks, within one instant   *)
(* of the clock grid; readable files, an endpoint that either completes a  *)
(* request or answers 500.                                                 *)
(***************************************************************************)
NextTwoWorkers ==
    \/ EnqueueOf(1, {"ok"}, {1})
    \/ \E w \in Workers : ProcessQueue(w)
    \/ \E w \in Workers : IncrementAttempts(w)
    \/ \E w \in Workers : ProcessUploadJob(w)
    \/ \E w \in Workers : UploadAttempt(w)
    \/ \E w \in Workers : ResponseFrom(w, {"completed", "server_error"})
    \/ \E w \in Workers : StatusWrite(w)

SpecTwoWorkers == Init /\ [][NextTwoWorkers]_vars

(***************************************************************************)
(* Abrupt termination and restart.  The process dies between any two       *)
(* steps; what the restarted process has is the upload_jobs table as it    *)
(* was, a new CloudUploader (so a new CircuitBreaker) and no worker in     *)
(* progress.                                                               *)
(***************************************************************************)
Restart ==
    /\ restarts < MaxRestarts
    /\ wk[1].pc # "idle"
    /\ restarts' = restarts + 1
    /\ wk' = [w \in Workers |-> IdleWorker]
    /\ cb' = CircuitBreaker(failure_threshold, recovery_timeout)
    /\ UNCHANGED <<clock, upload_jobs, created, callers, hist, calc>>

\* A drain by process_queue, terminated and restarted at any point.
NextRestart ==
    \/ Tick
    \/ Enqueue(1)
    \/ ProcessQueue(1)
    \/ IncrementAttempts(1)
    \/ ProcessUploadJob(1)
    \/ UploadAttempt(1)
    \/ Response(1)
    \/ StatusWrite(1)
    \/ Restart

SpecRestart == Init /\ [][NextRestart]_vars

(***************************************************************************)
(* Store-layer failures.  A call of the UploadQueue raises (sqlite3.Error: *)
(* the database is locked, the disk is full).  What happens next depends   *)
(* on where the call stands:                                               *)
(*  - get_next_jobs, line 252, increment_attempts, line 374, and the       *)
(*    FAILED write of line 260 are outside every try: the exception        *)
(*    leaves process_queue or upload_file;                                 *)
(*  - the writes of lines 289, 294 and 299 are inside the try of lines     *)
(*    264-308: the handler writes FAILED with the exception's text (the    *)
(*    store answering again) and returns;                                  *)
(*  - the write of line 306 is in the handler itself: the exception        *)
(*    leaves it.                                                           *)
(***************************************************************************)
StoreFailure(w) ==
    /\ wk[w].pc \in {"pq_inc", "puj_fetch", "puj_write"}
    /\ IF wk[w].pc = "puj_write" /\ wk[w].kind = "upload"
       THEN /\ upload_jobs' = update_job_status(upload_jobs, wk[w].job.id,
                                                "failed", "Store error", NoTime)
            /\ wk' = [wk EXCEPT ![w] = Returned_to(w)]
            /\ restarts' = restarts
       ELSE /\ restarts < MaxRestarts
            /\ upload_jobs' = upload_jobs
            /\ wk' = [wk EXCEPT ![w] = IdleWorker]
            /\ restarts' = restarts + 1
    /\ UNCHANGED <<clock, cb, created, callers, hist, calc>>

NextStoreFailure ==
    \/ TickUpTo(1)
    \/ UploadFile(1)
    \/ ProcessQueue(1)
    \/ IncrementAttempts(1)
    \/ ProcessUploadJob(1)
    \/ UploadAttempt(1)
    \/ Response(1)
    \/ StatusWrite(1)
    \/ StoreFailure(1)

SpecStoreFailure == Init /\ [][NextStoreFailure]_vars

(***************************************************************************)
(* One drain.  Files are handed in, by upload_file and by enqueue, and     *)
(* process_queue is called, all at clock 0; from then on the drain that is *)
(* running goes on while the clock advances between its steps.  The        *)
(* endpoint answers every request with a 2xx body that is not 'completed'. *)
(***************************************************************************)
NextOneDrain ==
    \/ TickUpTo(DefaultMaxAttempts)
    \/ clock = 0 /\ UploadFile(1)
    \/ clock = 0 /\ EnqueueOf(1, {"ok"}, {1})
    \/ (clock = 0 \/ wk[1].pc = "pq_fetch") /\ ProcessQueue(1)
    \/ IncrementAttempts(1)
    \/ ProcessUploadJob(1)
    \/ UploadAttempt(1)
    \/ ResponseFrom(1, {"app_failure"})
    \/ StatusWrite(1)

SpecOneDrain == Init /\ [][NextOneDrain]_vars

(***************************************************************************)
(* A worker that calls process_queue for ever.  For the run to go on for   *)
(* ever in finitely many states,                                           *)
(*  - time is kept relative: the clock stays at its origin and the passing *)
(*    of TickLength moves every next_retry_at that much nearer (a time     *)
(*    that has passed is recorded as the origin; the code only compares    *)
(*    next_retry_at with now);                                             *)
(*  - attempts beyond max_attempts + 1 are recorded as max_attempts + 1:   *)
(*    the code reads attempts to compare it with max_attempts (lines 293,  *)
(*    312, 328) and, below max_attempts, to compute the backoff.           *)
(* The endpoint answers every request with a 2xx body that is not          *)
(* 'completed', so the breaker never records a failure.                    *)
(***************************************************************************)
Elapse ==
    /\ clock = 0
    /\ cb.last_failure_time = NoTime
    /\ upload_jobs' =
          [id \in DOMAIN upload_jobs |->
              IF upload_jobs[id].next_retry_at = NoTime
              THEN upload_jobs[id]
              ELSE [upload_jobs[id] EXCEPT !.next_retry_at =
                        IF @ > TickLength THEN @ - TickLength ELSE 0]]
    /\ UNCHANGED <<clock, cb, created, wk, callers, hist, calc, restarts>>

IncrementAttemptsCapped(w) ==
    /\ wk[w].pc = "pq_inc"
    /\ LET job_id == wk[w].jobs[wk[w].k]
       IN  upload_jobs' =
              IF upload_jobs[job_id].attempts > upload_jobs[job_id].max_attempts
              THEN upload_jobs
              ELSE increment_attempts(upload_jobs, job_id)
    /\ wk' = [wk EXCEPT ![w].pc = "puj_fetch"]
    /\ UNCHANGED <<clock, cb, created, callers, hist, calc, restarts>>

Drain ==
    \/ ProcessQueue(1)
    \/ IncrementAttemptsCapped(1)
    \/ ProcessUploadJob(1)
    \/ UploadAttempt(1)
    \/ ResponseFrom(1, {"app_failure"})
    \/ StatusWrite(1)

NextForever ==
    \/ Elapse
    \/ UploadFile(1)
    \/ EnqueueOf(1, {"ok"}, {1})
    \/ Drain

\* The worker goes on whenever it can, and time goes on.
SpecForever ==
    Init /\ [][NextForever]_vars /\ WF_vars(Drain) /\ WF_vars(Elapse)

(***************************************************************************)
(* Properties.                                                             *)
(***************************************************************************)
Terminal == {"completed", "failed"}

\* The step is the status write that ends the worker's processing cycle.
WritesStatus == wk[1].pc = "puj_write" /\ wk'[1].pc # "puj_write"

Ids(rows) == { rows[i].id : i \in 1 .. Len(rows) }

\* The limits get_next_jobs is called with, and the small ones around the
\* size of the table.
Limits == (0 .. MaxJobs + 1) \cup {QueueBatchLimit}

\* C1: single worker: once a job is COMPLETED or FAILED no step changes its
\* status, and no get_next_jobs call, at any limit and any clock, returns it.
C1_TerminalIsAbsorbing ==
    [][ \A id \in DOMAIN upload_jobs :
          upload_jobs[id].status \in Terminal =>
            /\ upload_jobs'[id].status = upload_jobs[id].status
            /\ \A limit \in Limits :
                 id \notin Ids(get_next_jobs(upload_jobs', clock', limit))
      ]_vars

\* A batch is claimed while another job is already terminal.
C1_Witness ==
    /\ wk[1].pc = "pq_inc"
    /\ \E id \in DOMAIN upload_jobs : upload_jobs[id].status \in Terminal

\* C2: every FAILED job has attempts <= max_attempts.
C2_FailedWithinMaxAttempts ==
    \A id \in DOMAIN upload_jobs :
        upload_jobs[id].status = "failed" =>
            upload_jobs[id].attempts <= upload_jobs[id].max_attempts

\* C3: one caller: between calls the breaker is OPEN exactly when
\* failure_threshold or more calls in a row have failed, and a call made on
\* an OPEN breaker before recovery_timeout has elapsed raises the
\* circuit-open error without invoking the operation.
C3_OpensAtThreshold ==
    /\ callers[1] = "idle" =>
          (cb.state = "open" <=> hist.failures >= failure_threshold)
    /\ ( /\ hist.state = "open"
         /\ hist.now - hist.last_failure_time < recovery_timeout * UnitsPerSecond )
       => (hist.invoked = 0 /\ hist.outcome = "circuit_open")

\* The breaker opened on the failure_threshold-th failure and rejected the
\* next call.
C3_Witness ==
    /\ hist.failures = failure_threshold
    /\ hist.state = "open"
    /\ hist.outcome = "circuit_open"

\* C4: one caller: a call on an OPEN breaker once recovery_timeout has
\* elapsed invokes the operation once with the breaker HALF_OPEN; when the
\* operation returns the breaker is CLOSED with failure_count 0, when it
\* raises the breaker is OPEN.
C4_TrialCall ==
    ( /\ hist.state = "open"
      /\ hist.now - hist.last_failure_time >= recovery_timeout * UnitsPerSecond )
    => /\ hist.invoked = 1
       /\ hist.outcome = "pending" =>
             (cb.state = "half_open" /\ callers[1] = "in_trial")
       /\ hist.outcome = "returned" =>
             (cb.state = "closed" /\ cb.failure_count = 0)
       /\ hist.outcome = "raised" => cb.state = "open"
       /\ hist.outcome \in {"pending", "returned", "raised"}

\* A trial call returned and closed the breaker.
C4_Witness ==
    /\ hist.state = "open"
    /\ hist.outcome = "returned"
    /\ cb.state = "closed"

\* C5: any number of callers: OPEN implies failure_count >= failure_threshold.
C5_OpenImpliesThreshold ==
    cb.state = "open" => cb.failure_count >= cb.failure_threshold

\* The breaker is OPEN while a call that entered earlier is still running.
C5_Witness ==
    /\ cb.state = "open"
    /\ \E c \in Callers : callers[c] = "in_func"

\* C6: of the callers that found the breaker OPEN (timeout elapsed) or
\* HALF_OPEN, at most one at a time is running the operation: the trial
\* call is alone until its outcome is recorded.
C6_OneTrialInFlight ==
    Cardinality({ c \in Callers : callers[c] = "in_trial" }) <= 1

\* C7: the breaker leaves OPEN only for HALF_OPEN, and only once
\* recovery_timeout has elapsed since last_failure_time.
C7_LeavesOpenByTrialOnly ==
    [][ cb.state = "open" =>
          \/ cb'.state = "open"
          \/ /\ cb'.state = "half_open"
             /\ clock - cb.last_failure_time >= recovery_timeout * UnitsPerSecond
      ]_vars

\* C8: get_next_jobs(limit) is the first min(limit, n) of the n jobs that
\* are PENDING or RETRY with next_retry_at null or <= now, oldest first.
C8_NextJobsOldestFirst ==
    \A limit \in Limits :
        LET rows  == get_next_jobs(upload_jobs, clock, limit)
            ready == { id \in DOMAIN upload_jobs :
                         /\ upload_jobs[id].status \in {"pending", "retry"}
                         /\ \/ upload_jobs[id].next_retry_at = NoTime
                            \/ upload_jobs[id].next_retry_at <= clock }
        IN  /\ Len(rows) = Min(limit, Cardinality(ready))
            /\ \A i \in 1 .. Len(rows) :
                  rows[i].id \in ready /\ rows[i] = upload_jobs[rows[i].id]
            /\ \A i, j \in 1 .. Len(rows) :
                  i < j => rows[i].created_at < rows[j].created_at
            /\ \A id \in ready \ Ids(rows) : \A i \in 1 .. Len(rows) :
                  rows[i].created_at < upload_jobs[id].created_at

\* get_next_jobs(limit=1) has just picked the older of two ready jobs.
C8_Witness ==
    /\ wk[1].pc \in {"retry_loop", "puj_write"}
    /\ Cardinality(Eligible(upload_jobs, clock)) = 2

\* C9: a step sets a job to COMPLETED exactly when it is the status write of
\* a cycle whose last transport call, made with that job's payload, returned
\* a body with status 'completed'.
C9_CompletedIffDelivered ==
    [][ \A id \in DOMAIN upload_jobs :
          ( upload_jobs[id].status # "completed"
            /\ upload_jobs'[id].status = "completed" )
          <=> ( /\ WritesStatus
                /\ wk[1].job.id = id
                /\ wk[1].payload = id
                /\ wk[1].outcome = "completed" )
      ]_vars

\* A job is COMPLETED.
C9_Witness ==
    \E id \in DOMAIN upload_jobs : upload_jobs[id].status = "completed"

\* C10: the status write of a cycle whose transport outcome is permanent
\* sets the job to FAILED.
C10_PermanentFails ==
    [][ ( /\ WritesStatus
          /\ wk[1].outcome \in {"client_error", "app_failure"} )
        => upload_jobs'[wk[1].job.id].status = "failed"
      ]_vars

\* The sub-attempts of the cycle, if any, all raised: the last guarded call
\* did not return (the loop stops at the first call that returns).
AllTransient ==
    /\ wk[1].kind = "upload"
    /\ wk[1].outcome \notin Returned

\* C11: the status write of a cycle whose sub-attempts all ended in a
\* transient failure (5xx, 429, network error, circuit-open rejection) sets
\* the job to RETRY with next_retry_at = now + backoff(attempts), a delay of
\* 0.9 to 1.1 times 2^attempts seconds capped at max_delay, when
\* attempts < max_attempts, and to FAILED with next_retry_at null when
\* attempts >= max_attempts; error_message is the failure's message.
C11_TransientRetryOrFail ==
    [][ (WritesStatus /\ AllTransient) =>
          LET id    == wk[1].job.id
              a     == upload_jobs[id].attempts
              row   == upload_jobs'[id]
              delay == row.next_retry_at - clock
          IN  /\ row.error_message = wk[1].error
              /\ row.error_message # None
              /\ IF a < upload_jobs[id].max_attempts
                 THEN /\ row.status = "retry"
                      /\ row.next_retry_at # NoTime
                      /\ \/ delay = max_delay * UnitsPerSecond
                         \/ /\ 9 * Pow2(a) * UnitsPerSecond <= 10 * delay
                            /\ 10 * delay <= 11 * Pow2(a) * UnitsPerSecond
                 ELSE /\ row.status = "failed"
                      /\ row.next_retry_at = NoTime
      ]_vars

\* A job is in RETRY after a cycle whose every sub-attempt raised.
C11_Witness ==
    \E id \in DOMAIN upload_jobs :
        /\ upload_jobs[id].status = "retry"
        /\ upload_jobs[id].attempts >= 1
        /\ upload_jobs[id].error_message
              \in {"Rate limited", "Server error", "Network error",
                   "Circuit breaker is OPEN"}

\* C12: a job whose file does not exist is, once processed, FAILED with the
\* not-found message, no retry scheduled and attempts = 0; it is never
\* COMPLETED or in RETRY.
C12_MissingFileNoAttempt ==
    \A id \in DOMAIN upload_jobs :
        upload_jobs[id].file_path = "missing" =>
            /\ upload_jobs[id].status \in {"pending", "failed"}
            /\ upload_jobs[id].status = "failed" =>
                  /\ upload_jobs[id].error_message = "File not found"
                  /\ upload_jobs[id].next_retry_at = NoTime
                  /\ upload_jobs[id].attempts = 0

\* C13: max_attempts = 3, one job, every request answered 500: the status
\* writes of the successive cycles are PENDING -> RETRY (attempts 1),
\* RETRY -> RETRY (attempts 2) and RETRY -> FAILED (attempts 3); the
\* breaker's failure_count never exceeds 3, is 3 once the job is FAILED, and
\* the breaker stays CLOSED.
C13_ThreeAttemptsScenario ==
    [][ /\ cb'.state = "closed"
        /\ cb'.failure_count <= 3
        /\ upload_jobs'[1].status = "failed" => cb'.failure_count = 3
        /\ upload_jobs'[1].status # upload_jobs[1].status => WritesStatus
        /\ WritesStatus =>
              LET a   == upload_jobs[1].attempts
                  old == upload_jobs[1].status
                  new == upload_jobs'[1].status
              IN  \/ a = 1 /\ old = "pending" /\ new = "retry"
                  \/ a = 2 /\ old = "retry" /\ new = "retry"
                  \/ a = 3 /\ old = "retry" /\ new = "failed"
      ]_vars

\* The job has gone through its three cycles and is FAILED.
C13_Witness ==
    /\ upload_jobs[1].status = "failed"
    /\ upload_jobs[1].attempts = 3
    /\ cb.failure_count = 3
    /\ cb.state = "closed"

\* C14: the status write of a job's first cycle (the row is still PENDING)
\* whose first sub-attempt was answered 'completed' leaves the job COMPLETED
\* with attempts = 1 and the breaker CLOSED with failure_count = 0.
C14_FirstAttemptCompletes ==
    [][ ( /\ WritesStatus
          /\ wk[1].kind = "upload"
          /\ wk[1].attempt = 0
          /\ wk[1].outcome = "completed"
          /\ upload_jobs[wk[1].job.id].status = "pending" )
        => /\ upload_jobs'[wk[1].job.id].status = "completed"
           /\ upload_jobs'[wk[1].job.id].attempts = 1
           /\ cb'.state = "closed"
           /\ cb'.failure_count = 0
      ]_vars

\* C15: the status write of a cycle whose last request was answered 429 with
\* Retry-After: 30 sets the job to RETRY with next_retry_at within 5 s of
\* now + 30 s.
C15_RetryAfterHonoured ==
    [][ ( /\ WritesStatus
          /\ wk[1].kind = "upload"
          /\ wk[1].outcome = "rate_limited" )
        => LET row   == upload_jobs'[wk[1].job.id]
               delay == row.next_retry_at - clock
           IN  /\ row.status = "retry"
               /\ row.next_retry_at # NoTime
               /\ 25 * UnitsPerSecond <= delay
               /\ delay <= 35 * UnitsPerSecond
      ]_vars

\* C16: for every attempt in 0..MaxAttempt and every byte in 0..255,
\* _calculate_backoff(attempt) is within [0, max_delay] and is min(v,
\* max_delay) for some v in [0.9 * 2^attempt, 1.1 * 2^attempt]; it is exactly
\* max_delay whenever 0.9 * 2^attempt >= max_delay.
C16_BackoffWithinBounds ==
    calc.result # NoTime =>
        LET r   == calc.result
            lo  == 9 * Pow2(calc.attempt) * UnitsPerSecond
            hi  == 11 * Pow2(calc.attempt) * UnitsPerSecond
            cap == max_delay * UnitsPerSecond
        IN  /\ 0 <= r /\ r <= cap
            /\ \/ lo <= 10 * r /\ 10 * r <= hi
               \/ r = cap /\ hi >= 10 * cap
            /\ lo >= 10 * cap => r = cap

\* A call whose uncapped delay would exceed max_delay returned max_delay.
C16_Witness ==
    /\ calc.result = max_delay * UnitsPerSecond
    /\ Pow2(calc.attempt) > max_delay
    /\ calc.byte = 0

\* The job whose attempts the current iteration has incremented, 0 if none:
\* process_queue increments the job of its batch, upload_file none.
Incremented(w) ==
    IF wk[w].caller = "process_queue" /\ wk[w].pc # "pq_inc"
    THEN wk[w].jobs[wk[w].k]
    ELSE 0

\* C17: when a cycle makes a request to the transport, the job it is
\* processing is the job whose attempts were incremented for this cycle.
C17_IncrementsProcessedJob ==
    wk[1].pc = "in_request" => Incremented(1) = wk[1].job.id

\* The worker is inside the retry loop of _upload_with_retry, or has left
\* it and not yet written the status.
InCycle == wk[1].kind = "upload" /\ wk[1].pc \in {"retry_loop", "in_request", "puj_write"}

C19_ClaimLeavesJobReady ==
    [][ \A w \in Workers :
          ( wk[w].pc = "puj_fetch" /\ wk'[w].pc \in {"retry_loop", "puj_write"} )
          => LET row == upload_jobs'[wk'[w].job.id]
             IN  /\ row.status \in {"pending", "retry"}
                 /\ row.next_retry_at = NoTime \/ row.next_retry_at <= clock'
                 /\ upload_jobs' = upload_jobs
      ]_vars

\* Both workers have claimed the same job and both have its payload in a
\* request to the transport.
C19_Witness ==
    /\ wk[1].pc = "in_request"
    /\ wk[2].pc = "in_request"
    /\ wk[1].payload = wk[2].payload
    /\ wk[1].job.id = wk[2].job.id

\* C20: two workers: a row that is COMPLETED or FAILED changes status only
\* by the status write of a worker that is processing that row from a
\* snapshot taken while it was PENDING or RETRY; update_job_status does not
\* look at the row's current status.
C20_StaleWriteOnly ==
    [][ \A id \in DOMAIN upload_jobs :
          ( /\ upload_jobs[id].status \in Terminal
            /\ upload_jobs'[id].status # upload_jobs[id].status )
          => \E w \in Workers :
                /\ wk[w].pc = "puj_write" /\ wk'[w].pc # "puj_write"
                /\ wk[w].job.id = id
                /\ wk[w].job.status \in {"pending", "retry"}
      ]_vars

\* The only job of the store was recorded COMPLETED by a worker that has
\* not started another cycle since, and is now RETRY or FAILED: the other
\* worker has overwritten it.
C20_Witness ==
    /\ Cardinality(DOMAIN upload_jobs) = 1
    /\ \E w \in Workers :
          /\ wk[w].pc = "pq_fetch"
          /\ wk[w].success
          /\ wk[w].outcome = "completed"
    /\ \E id \in DOMAIN upload_jobs :
          upload_jobs[id].status \in {"retry", "failed"}

\* The instant from which a row's next_retry_at has passed.
DueTime(row) == IF row.next_retry_at > clock THEN row.next_retry_at ELSE clock

\* C21: with the process terminated and restarted at any point, every job
\* is COMPLETED or FAILED, or is PENDING or RETRY and is returned by
\* get_next_jobs once its next_retry_at has passed.
C21_RestartLeavesJobsClaimable ==
    \A id \in DOMAIN upload_jobs :
        \/ upload_jobs[id].status \in Terminal
        \/ /\ upload_jobs[id].status \in {"pending", "retry"}
           /\ id \in Ids(get_next_jobs(upload_jobs, DueTime(upload_jobs[id]),
                                       QueueBatchLimit))

\* The process was terminated after increment_attempts and before the
\* status write: the only job of the store is PENDING with attempts = 1 and
\* no worker is processing it.
C21_Witness ==
    /\ wk[1].pc = "idle"
    /\ Cardinality(DOMAIN upload_jobs) = 1
    /\ \E id \in DOMAIN upload_jobs :
          /\ upload_jobs[id].status = "pending"
          /\ upload_jobs[id].attempts = 1
          /\ cb.failure_count = 0

\* C22: a store-layer failure is never converted into a job-level status:
\* no job carries the store's error as its error_message.
C22_StoreErrorsPropagate ==
    \A id \in DOMAIN upload_jobs :
        upload_jobs[id].error_message # "Store error"

\* The cycle met a payload-level failure (file missing, unreadable or
\* malformed) or a transport-level one on every sub-attempt.
CycleFailedBelow ==
    \/ wk[1].kind \in {"not_found", "exception"}
    \/ AllTransient

\* C23: a cycle that met a transport-level or payload-level failure changes
\* the table only by its one status write, which sets the job to RETRY or
\* FAILED with a non-null error_message; the worker then goes on: to the
\* next job of the batch or the next get_next_jobs of process_queue, or
\* back to the caller of upload_file.
C23_FailuresBecomeStatus ==
    [][ /\ ( wk[1].pc \in {"retry_loop", "in_request"}
             \/ (wk[1].pc = "puj_write" /\ ~ WritesStatus) )
           => upload_jobs' = upload_jobs
        /\ (WritesStatus /\ CycleFailedBelow)
           => /\ upload_jobs'[wk[1].job.id].status \in {"retry", "failed"}
              /\ upload_jobs'[wk[1].job.id].error_message # None
              /\ \A id \in DOMAIN upload_jobs \ {wk[1].job.id} :
                    upload_jobs'[id] = upload_jobs[id]
              /\ wk'[1].pc = IF wk[1].caller = "process_queue"
                             THEN IF wk[1].k < Len(wk[1].jobs)
                                  THEN "pq_inc" ELSE "pq_fetch"
                             ELSE "idle"
      ]_vars

\* A job with a malformed file was set to FAILED and process_queue is at
\* the next job of its batch.
C23_Witness ==
    /\ wk[1].pc = "pq_inc"
    /\ wk[1].k = 2
    /\ \E id \in DOMAIN upload_jobs :
          /\ upload_jobs[id].status = "failed"
          /\ upload_jobs[id].error_message = "Load error"

\* C24: a job's next_retry_at is non-null only if its status is RETRY.
C24_RetryTimeOnlyInRetry ==
    \A id \in DOMAIN upload_jobs :
        upload_jobs[id].next_retry_at # NoTime => upload_jobs[id].status = "retry"

\* The only job of the store went through RETRY and is now COMPLETED with
\* next_retry_at null.
C24_Witness ==
    /\ Cardinality(DOMAIN upload_jobs) = 1
    /\ \E id \in DOMAIN upload_jobs :
          /\ upload_jobs[id].status = "completed"
          /\ upload_jobs[id].attempts = 2
          /\ upload_jobs[id].next_retry_at = NoTime

\* C25: error_message is null while the job is PENDING and non-null once it
\* is RETRY or FAILED, and the status write of a cycle stores the message
\* of the failure that cycle ended with.
C25_ErrorMessageTracksFailure ==
    [][ /\ \A id \in DOMAIN upload_jobs' :
              /\ upload_jobs'[id].status = "pending" =>
                    upload_jobs'[id].error_message = None
              /\ upload_jobs'[id].status \in {"retry", "failed"} =>
                    upload_jobs'[id].error_message # None
        /\ ( WritesStatus
             /\ upload_jobs'[wk[1].job.id].status \in {"retry", "failed"} )
           => upload_jobs'[wk[1].job.id].error_message = wk[1].error
      ]_vars

\* C26: a job that is FAILED with its attempts used up carries the message
\* of the last transient failure of its transport sub-attempts.
C26_ExhaustedKeepsLastError ==
    \A id \in DOMAIN upload_jobs :
        ( /\ upload_jobs[id].status = "failed"
          /\ upload_jobs[id].attempts >= upload_jobs[id].max_attempts )
        => upload_jobs[id].error_message
              \in {"Rate limited", "Server error", "Network error",
                   "Circuit breaker is OPEN"}

\* C27: an enqueue adds exactly one job under an id no job had, PENDING with
\* attempts 0 and no retry time or error message, and leaves every job that
\* was there as it was; jobs may share a batch_id.
C27_EnqueueAddsOneJob ==
    [][ created' # created =>
          \E id \in DOMAIN upload_jobs' \ DOMAIN upload_jobs :
             /\ DOMAIN upload_jobs' = DOMAIN upload_jobs \cup {id}
             /\ upload_jobs'[id].id = id
             /\ upload_jobs'[id].status = "pending"
             /\ upload_jobs'[id].attempts = 0
             /\ upload_jobs'[id].next_retry_at = NoTime
             /\ upload_jobs'[id].error_message = None
             /\ \A other \in DOMAIN upload_jobs :
                   upload_jobs'[other] = upload_jobs[other]
      ]_vars

C27_Witness ==
    \E old, new \in DOMAIN upload_jobs :
        /\ old # new
        /\ upload_jobs[old].created_at < upload_jobs[new].created_at
        /\ upload_jobs[old].batch_id = upload_jobs[new].batch_id
        /\ upload_jobs[old].status = "retry"
        /\ upload_jobs[old].attempts > 0
        /\ upload_jobs[new].status = "pending"
        /\ upload_jobs[new].attempts = 0
        /\ wk[1].pc = "idle"

\* C28: no step removes a job from the store, COMPLETED and FAILED jobs
\* included, and no step changes a job's id, file_path, batch_id or
\* created_at.
C28_StoreOnlyGrows ==
    [][ \A id \in DOMAIN upload_jobs :
           /\ id \in DOMAIN upload_jobs'
           /\ upload_jobs'[id].id = upload_jobs[id].id
           /\ upload_jobs'[id].file_path = upload_jobs[id].file_path
           /\ upload_jobs'[id].batch_id = upload_jobs[id].batch_id
           /\ upload_jobs'[id].created_at = upload_jobs[id].created_at
      ]_vars

C28_Witness ==
    /\ Cardinality(DOMAIN upload_jobs) = MaxJobs
    /\ \E done, lost \in DOMAIN upload_jobs :
          /\ upload_jobs[done].status = "completed"
          /\ upload_jobs[lost].status = "failed"
          /\ upload_jobs[done].created_at < upload_jobs[lost].created_at
          /\ upload_jobs[done].batch_id # upload_jobs[lost].batch_id
    /\ wk[1].pc = "idle"
    /\ clock > 0

\* C29: a step that calls get_next_jobs leaves every row of the store as it
\* was, and a second call right after it, at the same clock, returns the
\* jobs the first call returned.
FetchStep ==
    \/ wk[1].pc = "puj_fetch" /\ wk'[1].pc # "puj_fetch"
    \/ wk[1].pc \in {"idle", "pq_fetch"} /\ wk'[1].pc = "pq_inc"
    \/ wk[1].pc = "pq_fetch" /\ wk'[1].pc = "idle"

C29_GetNextJobsReadOnly ==
    [][ FetchStep =>
          /\ upload_jobs' = upload_jobs
          /\ clock' = clock
          /\ wk'[1].pc = "pq_inc" =>
                LET again == get_next_jobs(upload_jobs', clock', QueueBatchLimit)
                IN  wk'[1].jobs = [i \in 1 .. Len(again) |-> again[i].id]
          /\ wk'[1].pc = "idle" /\ wk[1].pc = "pq_fetch" =>
                get_next_jobs(upload_jobs', clock', QueueBatchLimit) = << >>
          /\ wk[1].pc = "puj_fetch" /\ wk'[1].pc \in {"retry_loop", "puj_write"} =>
                wk'[1].job = get_next_jobs(upload_jobs', clock', 1)[1]
      ]_vars

C29_Witness ==
    /\ wk[1].pc = "pq_inc"
    /\ wk[1].k = 1
    /\ Len(wk[1].jobs) = 2
    /\ upload_jobs[wk[1].jobs[1]].status = "retry"
    /\ upload_jobs[wk[1].jobs[1]].attempts > 0
    /\ upload_jobs[wk[1].jobs[2]].status = "pending"

\* C30: increment_attempts raises the attempts of the addressed job by one
\* and leaves its status, error_message and next_retry_at; update_job_status
\* replaces those three (a value left out becomes null) and leaves attempts;
\* neither changes another job, and applied to one table in either order
\* they give the same table.
Statuses == {"pending", "processing", "completed", "failed", "retry"}

C30_WritesAreIndependent ==
    [][ /\ ( wk[1].pc = "pq_inc" /\ wk'[1].pc = "puj_fetch" ) =>
             LET job_id == wk[1].jobs[wk[1].k]
             IN  /\ upload_jobs'[job_id] =
                       [upload_jobs[job_id] EXCEPT !.attempts = @ + 1]
                 /\ \A id \in DOMAIN upload_jobs \ {job_id} :
                       upload_jobs'[id] = upload_jobs[id]
                 /\ \A b \in DOMAIN upload_jobs, status \in Statuses,
                       error_message \in {None, "Server error"},
                       next_retry_at \in {NoTime, clock} :
                       update_job_status(upload_jobs', b, status,
                                         error_message, next_retry_at)
                       = increment_attempts(
                            update_job_status(upload_jobs, b, status,
                                              error_message, next_retry_at),
                            job_id)
        /\ WritesStatus =>
             LET job_id == wk[1].job.id
                 row    == upload_jobs'[job_id]
             IN  /\ row.attempts = upload_jobs[job_id].attempts
                 /\ row.status = "completed" =>
                       /\ row.error_message = None
                       /\ row.next_retry_at = NoTime
                 /\ row.status = "failed" => row.next_retry_at = NoTime
                 /\ \A id \in DOMAIN upload_jobs \ {job_id} :
                       upload_jobs'[id] = upload_jobs[id]
                 /\ \A a \in DOMAIN upload_jobs :
                       increment_attempts(upload_jobs', a)
                       = update_job_status(increment_attempts(upload_jobs, a),
                                           job_id, row.status,
                                           row.error_message,
                                           row.next_retry_at)
      ]_vars

C30_Witness ==
    \E a, b \in DOMAIN upload_jobs :
        /\ upload_jobs[a].status = "completed"
        /\ upload_jobs[a].attempts >= 2
        /\ upload_jobs[a].error_message = None
        /\ upload_jobs[a].next_retry_at = NoTime
        /\ upload_jobs[b].status = "retry"
        /\ upload_jobs[b].attempts = 1
        /\ upload_jobs[b].next_retry_at > clock

\* C31: a drain goes on until a get_next_jobs returns no job, and it claims
\* a job no more often than the job has attempts: no increment_attempts of
\* a drain takes a job's attempts beyond its max_attempts.
C31_DrainWithinBudget ==
    [][ ( wk[1].pc = "pq_inc" /\ wk'[1].pc = "puj_fetch" ) =>
           \A id \in DOMAIN upload_jobs' :
              upload_jobs'[id].attempts <= upload_jobs'[id].max_attempts
      ]_vars

\* C32: a call that ran the wrapped operation records its outcome and hands
\* it on: when the operation raises, failure_count goes up by exactly 1,
\* last_failure_time is the time of the failure and the caller gets the
\* exception; when it returns, failure_count is 0, the breaker is CLOSED and
\* the caller gets the value.
C32_OutcomeRecorded ==
    [][ \A c \in Callers :
          ( callers[c] \in {"in_func", "in_trial"} /\ callers'[c] = "idle" ) =>
             \/ /\ hist'.failures = hist.failures + 1
                /\ cb'.failure_count = cb.failure_count + 1
                /\ cb'.last_failure_time = clock
                /\ hist.caller = c => hist'.outcome = "raised"
             \/ /\ hist'.failures = 0
                /\ cb'.failure_count = 0
                /\ cb'.state = "closed"
                /\ hist.caller = c => hist'.outcome = "returned"
      ]_vars

\* A failure recorded on a breaker that was already at its threshold, at a
\* later instant than the one before it.
C32_Witness ==
    /\ cb.failure_count = failure_threshold + 1
    /\ cb.last_failure_time = clock
    /\ clock > 0
    /\ hist.outcome = "raised"

\* C33: when the trial call of a HALF_OPEN breaker fails, the breaker is
\* OPEN, last_failure_time is the time of the failure and failure_count is
\* what it was before the trial call.
C33_TrialFailureKeepsCount ==
    [][ ( /\ callers[1] = "in_trial"
          /\ cb.state = "half_open"
          /\ callers'[1] = "idle"
          /\ hist'.outcome = "raised" )
        => /\ cb'.state = "open"
           /\ cb'.last_failure_time = clock
           /\ cb'.failure_count = cb.failure_count
      ]_vars

\* C35: a call that is rejected because the breaker is OPEN and the
\* recovery timeout has not elapsed leaves state, failure_count and
\* last_failure_time as they were, so the instant from which the trial call
\* is allowed stays where it was.
RejectedCall ==
    /\ hist'.outcome = "circuit_open"
    /\ hist'.now = clock
    /\ callers' = callers
    /\ clock' = clock

C35_RejectionLeavesBreaker ==
    [][ RejectedCall =>
          /\ cb.state = "open"
          /\ clock - cb.last_failure_time < recovery_timeout * UnitsPerSecond
          /\ cb' = cb
          /\ _should_attempt_reset(cb', cb.last_failure_time
                                          + recovery_timeout * UnitsPerSecond)
      ]_vars

\* A call was rejected half-way through the recovery timeout.
C35_Witness ==
    /\ hist.outcome = "circuit_open"
    /\ hist.now = clock
    /\ cb.state = "open"
    /\ clock - cb.last_failure_time = (recovery_timeout * UnitsPerSecond) \div 2

\* C34: the status write of an upload_file call is a write to the job that
\* this call enqueued (the newest row of the store), whatever older jobs
\* the store holds.
C34_UploadFileProcessesItsJob ==
    [][ ( WritesStatus /\ wk[1].caller = "upload_file" )
        => upload_jobs[wk[1].job.id].created_at = created
      ]_vars

C37_DrainLeavesNothingReady ==
    [][ ( /\ wk[1].caller = "process_queue"
          /\ wk[1].pc # "idle"
          /\ wk'[1].pc = "idle" )
        => \A id \in DOMAIN upload_jobs' :
              \/ upload_jobs'[id].status \in Terminal
              \/ /\ upload_jobs'[id].status = "retry"
                 /\ upload_jobs'[id].next_retry_at > clock'
      ]_vars

\* A drain has returned and left a job waiting for its retry time next to
\* a job that is done.
C37_Witness ==
    /\ wk[1].pc = "idle"
    /\ Cardinality(DOMAIN upload_jobs) = MaxJobs
    /\ \E a, b \in DOMAIN upload_jobs :
          /\ upload_jobs[a].status = "retry"
          /\ upload_jobs[a].attempts = 2
          /\ upload_jobs[a].next_retry_at > clock
          /\ upload_jobs[b].status = "failed"
          /\ upload_jobs[b].attempts = 1

\* C39, as claimed: a 4xx other than 429 and a 2xx whose body is not
\* 'completed' are returns of the guarded operation: the breaker records a
\* success (failure_count 0, CLOSED, also from HALF_OPEN), and
\* failure_count only ever grows on a 429, a 5xx or a network error.
C39_OnlyTransientCounts ==
    [][ /\ ( /\ wk[1].pc = "in_request"
             /\ wk'[1].pc # "in_request"
             /\ wk'[1].outcome \in {"client_error", "app_failure",
                                    "app_failure_null"} )
           => /\ cb'.failure_count = 0
              /\ cb'.state = "closed"
        /\ cb'.failure_count > cb.failure_count
           => /\ wk[1].pc = "in_request"
              /\ wk'[1].outcome \in {"rate_limited", "server_error",
                                     "network_error"}
      ]_vars

\* C39, amended: a 4xx other than 429 and a 2xx whose body parses and is
\* not 'completed' are returns of the guarded operation and are recorded as
\* a success (failure_count 0, CLOSED, also from HALF_OPEN); failure_count
\* grows exactly when the operation raises: on a 429, a 5xx, a network error
\* or a 200, 201 or 202 whose body is not JSON.
C39_RaisesCount ==
    [][ /\ ( /\ wk[1].pc = "in_request"
             /\ wk'[1].pc # "in_request"
             /\ wk'[1].outcome \in {"client_error", "app_failure",
                                    "app_failure_null"} )
           => /\ cb'.failure_count = 0
              /\ cb'.state = "closed"
        /\ cb'.failure_count > cb.failure_count
           <=> /\ wk[1].pc = "in_request"
               /\ wk'[1].pc # "in_request"
               /\ wk'[1].outcome \in {"rate_limited", "server_error",
                                      "network_error", "unparsable"}
      ]_vars

\* A client error answered the trial call of a breaker that had been OPEN
\* and closed it.
C39_Witness ==
    /\ wk[1].pc = "puj_write"
    /\ wk[1].outcome = "client_error"
    /\ wk[1].calls = 1
    /\ wk[1].job.error_message = "Circuit breaker is OPEN"
    /\ cb.state = "closed"
    /\ cb.failure_count = 0
    /\ cb.last_failure_time # NoTime
    /\ clock - cb.last_failure_time >= recovery_timeout * UnitsPerSecond

\* C38: with a single worker that calls process_queue again and again while
\* time passes, every job in the store eventually is COMPLETED or FAILED.
C38_EveryJobEnds ==
    \A id \in JobIds :
        (id \in DOMAIN upload_jobs)
           ~> (id \in DOMAIN upload_jobs /\ upload_jobs[id].status \in Terminal)

====
